---- MODULE Spec2Model ----
(***************************************************************************)
(* SchemaManager (src/src/schema/schema_manager.py): the artifact store    *)
(* (get_schema / set_schema), the validator adapter (_run_prisma_validate),*)
(* the repair requester (_fix_schema_with_llm) and the validate-and-repair *)
(* loop (validate_schema).                                                 *)
(*                                                                         *)
(* Schema texts are sequences of characters.  A character is a one-element *)
(* token: "a", "b", "c" stand for ordinary text, SP, LF, CR and TAB for    *)
(* the whitespace characters and BQ for one backtick.  Diagnostics are     *)
(* opaque strings.                                                         *)
(***************************************************************************)
EXTENDS Integers, Sequences, FiniteSets, TLC

VARIABLES
    llm_client,        \* self.llm_client is set (truthy)
    prisma_installed,  \* environment: the prisma executable can be launched
    dir_exists,        \* environment: the directory schema_dir exists
    fs,                \* the files of schema_dir: path -> [exists, data, touched]
    pc,                \* position of the running call
    op,                \* the API operation that runs or ran last
    schema_content,    \* validate_schema: the argument
    max_retries,       \* validate_schema: the argument
    attempts,          \* validate_schema: local
    current_schema,    \* validate_schema: local
    success,           \* validate_schema: local (last validator verdict)
    error_message,     \* validate_schema: local (last diagnostic) or Unbound
    result,            \* validate_schema: the returned dictionary
    retval,            \* get_schema: the returned string
    exc,               \* the exception that left the call, or NoExc
    n_validate,        \* history: _run_prisma_validate calls of this run
    n_repair,          \* history: _fix_schema_with_llm calls of this run
    n_passed,          \* history: validator calls of this run that passed
    fs_before,         \* history: fs when the running call started
    last_set,          \* history: the argument of the last set_schema that returned
    in_turn,           \* UnconfiguredAgent._process_input is running
    run_result,        \* UnconfiguredAgent.run: the parts of the returned message
    last_proc,         \* history: what the external process of the last check did
    repairs_raised,    \* history: repairs of this run whose LLM call raised
    llm_calls,         \* history: chat_completion calls of the running call
    checked_schema,    \* history: the candidate the last validator call examined
    repair_input,      \* history: the arguments of the repair call just made
    llm_reply,         \* fence stripping on its own: the LLM's reply
    stripped,          \* fence stripping on its own: the text extracted from it
    stripper,          \* fence stripping on its own: the routine that ran
    restripped         \* fence stripping on its own: the extracted text stripped again

vars == <<llm_client, prisma_installed, dir_exists, fs, pc, op, schema_content,
          max_retries, attempts, current_schema, success, error_message, result,
          retval, exc, n_validate, n_repair, n_passed, fs_before, last_set,
          in_turn, run_result, last_proc, repairs_raised, llm_calls,
          checked_schema, repair_input,
          llm_reply, stripped, stripper, restripped>>

\* the variables of the fence stripping taken on its own
fence_vars == <<llm_reply, stripped, stripper, restripped>>

(***************************************************************************)
(* Bounds of the model.                                                    *)
(***************************************************************************)
MaxAttempts == 3

(***************************************************************************)
(* Characters.                                                             *)
(***************************************************************************)
LF == "\n"
CR == "\r"
SP == " "
TAB == "\t"
BQ == "bq"

Whitespace == {SP, LF, CR, TAB}

\* The schema texts handed to set_schema and validate_schema.
Schemas == { <<>>, <<"a">>, <<"a", CR, LF, "b">> }

\* The texts the LLM collaborator answers with.
Replies == { <<"b">>,
             <<BQ, BQ, BQ, LF, "c", LF, BQ, BQ, BQ>>,
             <<SP>>,
             <<"a">>,
             <<"b", CR, "c">> }

NoExc == "none"
Unbound == "<unbound>"

\* line 106
ToolMissing == "Prisma CLI not found. Please install Prisma"
\* line 110
RunError == "Error running prisma validate"
\* line 101
UnknownError == "Unknown validation error"
\* line 194
EmptyError == "Schema content is empty"

(***************************************************************************)
(* The file system under schema_dir.                                       *)
(***************************************************************************)
schema_dir == "prisma"
schema_file == "schema.prisma"
schema_path == <<schema_dir, schema_file>>

temp_schema_path_same == <<schema_dir, schema_file>>
temp_schema_path == <<schema_dir, "temp_schema.prisma">>

Paths == {schema_path, temp_schema_path}

\* A file: touched records that the running call wrote or removed it.
Absent == [exists |-> FALSE, data |-> <<>>, touched |-> FALSE]

\* os.linesep of the platform
linesep == <<LF>>

\* open(path, "w").write(s): text mode turns every "\n" into os.linesep
RECURSIVE write_text(_)
write_text(s) ==
    IF s = <<>> THEN <<>>
    ELSE (IF Head(s) = LF THEN linesep ELSE <<Head(s)>>) \o write_text(Tail(s))

\* open(path, "r").read(): universal newlines turn "\r\n" and "\r" into "\n"
RECURSIVE read_text(_)
read_text(s) ==
    IF s = <<>> THEN <<>>
    ELSE IF Head(s) = CR
         THEN <<LF>> \o read_text(IF Len(s) >= 2 /\ s[2] = LF
                                  THEN Tail(Tail(s)) ELSE Tail(s))
         ELSE <<Head(s)>> \o read_text(Tail(s))

fs_write(f, p, s) ==
    [f EXCEPT ![p] = [exists |-> TRUE, data |-> write_text(s), touched |-> TRUE]]
fs_unlink(f, p) ==
    [f EXCEPT ![p] = [exists |-> FALSE, data |-> <<>>, touched |-> TRUE]]
\* the files as a new call finds them
untouched(f) == [p \in DOMAIN f |-> [f[p] EXCEPT !.touched = FALSE]]

(***************************************************************************)
(* The string functions the repair requester uses.                         *)
(***************************************************************************)
\* str.lstrip()
RECURSIVE lstrip(_)
lstrip(s) ==
    IF s # <<>> /\ Head(s) \in Whitespace THEN lstrip(Tail(s)) ELSE s

\* str.rstrip()
RECURSIVE rstrip(_)
rstrip(s) ==
    IF s # <<>> /\ s[Len(s)] \in Whitespace
    THEN rstrip(SubSeq(s, 1, Len(s) - 1)) ELSE s

\* str.strip()
strip(s) == rstrip(lstrip(s))

\* s.split("\n"): the lines of s, always at least one
RECURSIVE split_lines(_)
split_lines(s) ==
    IF \A i \in 1..Len(s) : s[i] # LF THEN <<s>>
    ELSE LET i == CHOOSE k \in 1..Len(s) :
                      s[k] = LF /\ \A j \in 1..(k - 1) : s[j] # LF
         IN <<SubSeq(s, 1, i - 1)>> \o split_lines(SubSeq(s, i + 1, Len(s)))

\* "\n".join(lines)
RECURSIVE join_lines(_)
join_lines(lines) ==
    IF lines = <<>> THEN <<>>
    ELSE IF Len(lines) = 1 THEN lines[1]
    ELSE lines[1] \o <<LF>> \o join_lines(Tail(lines))

\* line.startswith("```")
startswith_fence(line) ==
    Len(line) >= 3 /\ line[1] = BQ /\ line[2] = BQ /\ line[3] = BQ

\* "```" in s
contains_fence(s) ==
    \E i \in 1..(Len(s) - 2) : s[i] = BQ /\ s[i + 1] = BQ /\ s[i + 2] = BQ

\* the for loop of lines 162-167: the lines inside fenced blocks
RECURSIVE code_block_lines(_, _)
code_block_lines(lines, in_code_block) ==
    IF lines = <<>> THEN <<>>
    ELSE IF startswith_fence(strip(Head(lines)))
         THEN code_block_lines(Tail(lines), ~in_code_block)
         ELSE (IF in_code_block THEN <<Head(lines)>> ELSE <<>>)
              \o code_block_lines(Tail(lines), in_code_block)

\* lines 156-172: the schema extracted from the LLM's reply
extract_schema_untrimmed(reply) ==
    IF contains_fence(reply)
    THEN join_lines(code_block_lines(split_lines(reply), FALSE))
    ELSE reply
extract_schema(reply) ==
    strip(IF contains_fence(reply)
          THEN join_lines(code_block_lines(split_lines(reply), FALSE))
          ELSE reply)

(***************************************************************************)
(* Artifact store.                                                         *)
(***************************************************************************)
\* line 49: not self.schema_path.exists()
schema_file_missing_unchecked(f) == FALSE
schema_file_missing(f) == ~f[schema_path].exists

\* line 53: open(schema_path, "r") raises FileNotFoundError when there is no file
open_for_read_raises(f) == ~f[schema_path].exists

\* get_schema(): the stored text, "" when there is no file
get_schema(f) ==
    IF schema_file_missing(f) THEN <<>> ELSE read_text(f[schema_path].data)

\* set_schema(content): open(schema_path, "w") raises FileNotFoundError when
\* the directory is gone; otherwise the file holds content
set_schema_raises_never == FALSE
set_schema_raises == ~dir_exists

\* what open(schema_path, "w") does in an existing directory: it opens the
\* file, or the environment refuses the write
WriteOutcomes == {"ok", "PermissionError"}
\* the exception set_schema ends with when the open behaves as w, or "ok"
set_schema_outcome(w) == IF set_schema_raises THEN "FileNotFoundError" ELSE w
set_schema(f, content) == fs_write(f, schema_path, content)

(***************************************************************************)
(* Validator adapter.                                                      *)
(***************************************************************************)
\* What subprocess.run can do: complete with a return code and the two
\* streams, or raise (FileNotFoundError when prisma is not installed).
Streams == {"", "stderr text"}
Outs == {"", "stdout text"}
Completed == [kind : {"completed"}, returncode : {0, 1}, stderr : Streams, stdout : Outs]
Raised(k) == [kind |-> k, returncode |-> 1, stderr |-> "", stdout |-> ""]
ProcOutcomes ==
    IF prisma_installed THEN Completed \cup {Raised("OSError")}
    ELSE {Raised("FileNotFoundError")}
\* the process was not launched: the temporary file could not be opened
NotLaunched == Raised("not launched")

\* line 101: result.stderr or result.stdout or "Unknown validation error"
diagnostic_of_stdout_first(proc) ==
    IF proc.stdout # "" THEN proc.stdout
    ELSE IF proc.stderr # "" THEN proc.stderr
    ELSE UnknownError
diagnostic_of(proc) ==
    IF proc.stderr # "" THEN proc.stderr
    ELSE IF proc.stdout # "" THEN proc.stdout
    ELSE UnknownError

\* lines 93-95: the temporary file is removed once subprocess.run has returned
cleanup(f) == IF f[temp_schema_path].exists THEN fs_unlink(f, temp_schema_path) ELSE f

\* lines 105 and 109: except FileNotFoundError, except Exception: every
\* exception raised inside the try block is caught
exception_caught_only_missing(kind) == kind = "FileNotFoundError"
exception_caught(kind) == TRUE

\* lines 106 and 110: the diagnostic of a caught exception
exception_diagnostic_generic(kind) == RunError
exception_diagnostic(kind) ==
    IF kind = "FileNotFoundError" THEN ToolMissing ELSE RunError

\* lines 105-112: an exception of this kind was raised inside the try block
validate_raised(f, kind) ==
    IF exception_caught(kind)
    THEN [raises |-> FALSE, exc |-> NoExc, success |-> FALSE,
          error_message |-> exception_diagnostic(kind), fs |-> f]
    ELSE [raises |-> TRUE, exc |-> kind, success |-> FALSE,
          error_message |-> Unbound, fs |-> f]

\* _run_prisma_validate(schema_content) with subprocess.run behaving as proc:
\* the verdict, the diagnostic and the files afterwards
run_prisma_validate(f, content, proc) ==
    IF ~dir_exists
    THEN \* open(temp_schema_path, "w") raises FileNotFoundError (line 82)
         validate_raised(f, "FileNotFoundError")
    ELSE LET written == fs_write(f, temp_schema_path, content)
         IN  IF proc.kind # "completed"
             THEN validate_raised(written, proc.kind)
             ELSE IF proc.returncode = 0
             THEN [raises |-> FALSE, exc |-> NoExc, success |-> TRUE,
                   error_message |-> "", fs |-> cleanup(written)]
             ELSE [raises |-> FALSE, exc |-> NoExc, success |-> FALSE,
                   error_message |-> diagnostic_of(proc), fs |-> cleanup(written)]

(***************************************************************************)
(* Repair requester.                                                       *)
(***************************************************************************)
\* What llm_client.chat_completion can do: answer with a text, or raise.
LlmRaises == [raises |-> TRUE, text |-> <<>>]
LlmOutcomes == {LlmRaises} \cup {[raises |-> FALSE, text |-> r] : r \in Replies}

\* lines 124-126: without a client the method returns before any LLM call
fix_calls_llm == llm_client

\* lines 174-176: an exception of the LLM call is caught, the original is returned
fix_on_raise_empty(content) == <<>>
fix_on_raise(content) == content

\* _fix_schema_with_llm(schema_content, error_message) with the LLM behaving as llm
fix_schema_with_llm(content, message, llm) ==
    IF ~llm_client THEN content
    ELSE IF llm.raises THEN fix_on_raise(content)
    ELSE extract_schema(llm.text)

(***************************************************************************)
(* validate_schema: the pieces of the loop.                                *)
(***************************************************************************)
\* no repair call was made
NoRepairInput == [schema |-> <<>>, message |-> ""]

\* line 207: the validator is handed current_schema
validator_input_initial(current, initial) == initial
validator_input(current, initial) == current

\* line 225: the repair is handed current_schema and error_message
repair_arguments_initial(current, initial, message) ==
    [schema |-> initial, message |-> message]
repair_arguments(current, initial, message) ==
    [schema |-> current, message |-> message]

NoResult == [success |-> FALSE, error |-> Unbound, fixed_schema |-> <<>>, attempts |-> 0]

\* line 191: not schema_content
is_empty_never(content) == FALSE
is_empty(content) == Len(content) = 0

\* lines 192-197
empty_result_counted ==
    [success |-> FALSE, error |-> EmptyError, fixed_schema |-> <<>>, attempts |-> 1]
empty_result ==
    [success |-> FALSE, error |-> EmptyError, fixed_schema |-> <<>>, attempts |-> 0]

\* line 202: while attempts < max_retries
loop_condition(a, m) == a < m

\* line 203: attempts += 1
next_attempt_forgotten(a) == a
next_attempt(a) == a + 1

\* line 213 (and line 150 of the agent): set_schema is called outside any
\* try block of validate_schema, so its exception leaves the method
save_failure_swallowed == FALSE
save_failure_propagates == TRUE

\* line 212: the validated schema is saved when it is not the one passed in
needs_save_always(current, content) == TRUE
needs_save(current, content) == current # content

\* lines 215-220
success_result_retries(current, content, a) ==
    [success |-> TRUE, error |-> "", fixed_schema |-> current, attempts |-> a - 1]
success_result(current, content, a) ==
    [success |-> TRUE, error |-> "", fixed_schema |-> current, attempts |-> a]

\* line 223: attempts < max_retries and self.llm_client
can_repair_without_llm(a, m) == a < m
can_repair_last(a, m) == a <= m /\ llm_client
can_repair(a, m) == a < m /\ llm_client

\* lines 232-237
failure_result_unknown(message, current, a) ==
    [success |-> FALSE, error |-> UnknownError, fixed_schema |-> current, attempts |-> a]
failure_result(message, current, a) ==
    [success |-> FALSE, error |-> message, fixed_schema |-> current, attempts |-> a]

(***************************************************************************)
(* UnconfiguredAgent: the parts of the message a turn answers with.        *)
(***************************************************************************)
\* line 145: max_retries=3
TurnMaxRetries == 3

\* lines 120-135 of the agent: the same clean-up of the generated reply
generated_schema(reply) ==
    strip(IF contains_fence(reply)
          THEN join_lines(code_block_lines(split_lines(reply), FALSE))
          ELSE reply)

\* str(e) of an exception raised by llm_client.chat_completion
LlmErrorText == "llm error"

\* the first line of the three messages, lines 153, 157 and 165
SuccessText == "Successfully generated and validated Prisma schema!"
FailureText == "Failed to validate the generated schema after"
GenerationErrorText == "I encountered an error while generating the schema"

\* response: the first line of the message; attempts, diagnostic and schema:
\* the values formatted into it; error: the 'error' entry of the result of run
NoRunResult ==
    [kind |-> "none", response |-> "", error |-> "None", attempts |-> 0,
     diagnostic |-> "", schema |-> <<>>]

\* line 162: except Exception around the whole body of _process_input; what
\* it does not catch is caught by run at lines 238-240 (empty response)
process_input_catches_nothing == FALSE
process_input_catches == TRUE

\* lines 162-165 (and 238-240): the turn ends with the error text; stage names
\* the statement that raised
turn_error_result(stage, text) ==
    IF process_input_catches
    THEN [kind |-> stage, response |-> GenerationErrorText, error |-> text,
          attempts |-> 0, diagnostic |-> text, schema |-> <<>>]
    ELSE [kind |-> stage, response |-> "", error |-> text,
          attempts |-> 0, diagnostic |-> "", schema |-> <<>>]

\* lines 148-150: the front end stores fixed_schema after every success
turn_saves_if_repaired(res, initial) == res.success /\ res.fixed_schema # initial
turn_saves(res, initial) == res.success

\* lines 153-154: the message of a success
turn_success_result(res) ==
    [kind |-> "success", response |-> SuccessText, error |-> "None",
     attempts |-> res.attempts, diagnostic |-> "", schema |-> res.fixed_schema]

\* lines 157-158: the message of a failure prints the generated schema_content
turn_failure_result(res, initial) ==
    [kind |-> "failure", response |-> FailureText, error |-> res.error,
     attempts |-> res.attempts, diagnostic |-> res.error, schema |-> initial]

(***************************************************************************)
(* The calls.  A call starts when no call is running.                      *)
(***************************************************************************)
Idle == pc \in {"idle", "returned", "raised"} /\ ~in_turn

\* the locals and the history of a call that starts
Start(name) ==
    /\ Idle
    /\ op' = name
    /\ fs_before' = untouched(fs)
    /\ n_validate' = 0
    /\ n_repair' = 0
    /\ n_passed' = 0
    /\ repairs_raised' = 0
    /\ llm_calls' = 0
    /\ run_result' = NoRunResult
    /\ checked_schema' = <<>>
    /\ repair_input' = NoRepairInput

NoLocals ==
    /\ schema_content' = <<>>
    /\ max_retries' = 0
    /\ attempts' = 0
    /\ current_schema' = <<>>
    /\ success' = FALSE
    /\ error_message' = Unbound

\* SchemaManager(llm_client=...): lines 30-36, the directory is created
Construct ==
    \E llm \in BOOLEAN :
        /\ Start("__init__")
        /\ NoLocals
        /\ llm_client' = llm
        /\ dir_exists' = TRUE
        /\ fs' = untouched(fs)
        /\ pc' = "idle"
        /\ result' = NoResult
        /\ retval' = <<>>
        /\ exc' = NoExc
        /\ last_proc' = NotLaunched
        /\ UNCHANGED <<fence_vars, prisma_installed, last_set, in_turn>>

\* the environment removes schema_dir and the files in it between two calls
RemoveSchemaDir ==
    /\ Start("rmtree")
    /\ NoLocals
    /\ dir_exists
    /\ dir_exists' = FALSE
    /\ fs' = [p \in Paths |-> Absent]
    /\ last_set' = [valid |-> FALSE, data |-> <<>>]
    /\ pc' = "idle"
    /\ result' = NoResult
    /\ retval' = <<>>
    /\ exc' = NoExc
    /\ last_proc' = NotLaunched
    /\ UNCHANGED <<fence_vars, llm_client, prisma_installed, in_turn>>

\* get_schema(), lines 49-57
GetSchema ==
    /\ Start("get_schema")
    /\ IF ~schema_file_missing(fs) /\ open_for_read_raises(fs)
       THEN /\ retval' = <<>>
            /\ pc' = "raised"
            /\ exc' = "FileNotFoundError"
       ELSE /\ retval' = get_schema(fs)
            /\ pc' = "returned"
            /\ exc' = NoExc
    /\ fs' = untouched(fs)
    /\ result' = NoResult
    /\ NoLocals
    /\ UNCHANGED <<fence_vars, llm_client, prisma_installed, dir_exists, last_set,
                   in_turn, last_proc>>

\* set_schema(content), lines 65-68
SetSchema ==
    \E content \in Schemas, w \in WriteOutcomes :
        /\ Start("set_schema")
        /\ NoLocals
        /\ retval' = <<>>
        /\ result' = NoResult
        /\ IF set_schema_outcome(w) # "ok"
           THEN /\ pc' = "raised"
                /\ exc' = set_schema_outcome(w)
                /\ fs' = untouched(fs)
                /\ UNCHANGED last_set
           ELSE /\ pc' = "returned"
                /\ exc' = NoExc
                /\ fs' = set_schema(untouched(fs), content)
                /\ last_set' = [valid |-> TRUE, data |-> content]
        /\ UNCHANGED <<fence_vars, llm_client, prisma_installed, dir_exists,
                       in_turn, last_proc>>

(***************************************************************************)
(* validate_schema(schema_content, max_retries).                           *)
(***************************************************************************)
\* lines 191-200: the empty schema is rejected, otherwise the loop is entered
ValidateSchema ==
    \E content \in Schemas, m \in 0..MaxAttempts :
        /\ Start("validate_schema")
        /\ schema_content' = content
        /\ max_retries' = m
        /\ attempts' = 0
        /\ success' = FALSE
        /\ error_message' = Unbound
        /\ exc' = NoExc
        /\ retval' = <<>>
        /\ fs' = untouched(fs)
        /\ IF is_empty(content)
           THEN /\ result' = empty_result
                /\ current_schema' = <<>>
                /\ pc' = "returned"
           ELSE /\ result' = NoResult
                /\ current_schema' = content
                /\ pc' = "loop"
        /\ UNCHANGED <<fence_vars, llm_client, prisma_installed, dir_exists, last_set,
                       in_turn, last_proc>>

\* the two ways of calling validate_schema with no schema content
OmittedContent == "validate_schema()"
NoneContent == "validate_schema(None)"

\* line 178: schema_content is a parameter without a default value
schema_content_required == TRUE

\* validate_schema(max_retries=m) and validate_schema(None, m), lines 178-197:
\* the first cannot bind its arguments, the second is falsy at line 191
ValidateSchemaWithoutContent ==
    \E form \in {OmittedContent, NoneContent}, m \in 0..MaxAttempts :
        /\ Start(form)
        /\ schema_content' = <<>>
        /\ current_schema' = <<>>
        /\ max_retries' = m
        /\ attempts' = 0
        /\ success' = FALSE
        /\ error_message' = Unbound
        /\ retval' = <<>>
        /\ fs' = untouched(fs)
        /\ IF form = OmittedContent /\ schema_content_required
           THEN /\ result' = NoResult
                /\ pc' = "raised"
                /\ exc' = "TypeError"
           ELSE /\ result' = empty_result
                /\ pc' = "returned"
                /\ exc' = NoExc
        /\ UNCHANGED <<fence_vars, llm_client, prisma_installed, dir_exists, last_set,
                       in_turn, last_proc>>

\* lines 202-207: one more attempt, the validator checks current_schema
RunPrismaValidate ==
    /\ pc = "loop"
    /\ loop_condition(attempts, max_retries)
    /\ \E proc \in ProcOutcomes :
          LET examined == validator_input(current_schema, schema_content)
              r == run_prisma_validate(fs, examined, proc)
          IN  /\ success' = r.success
              /\ error_message' = r.error_message
              /\ fs' = r.fs
              /\ n_passed' = n_passed + (IF r.success THEN 1 ELSE 0)
              /\ exc' = r.exc
              /\ pc' = IF r.raises THEN "raised" ELSE "checked"
              /\ last_proc' = IF dir_exists THEN proc ELSE NotLaunched
              /\ checked_schema' = examined
    /\ repair_input' = NoRepairInput
    /\ attempts' = next_attempt(attempts)
    /\ n_validate' = n_validate + 1
    /\ UNCHANGED <<fence_vars, llm_client, prisma_installed, dir_exists, op, schema_content,
                   max_retries, current_schema, result, retval, n_repair,
                   fs_before, last_set, in_turn, run_result, repairs_raised,
                   llm_calls>>

\* lines 209-220: the validated schema is saved if it was repaired, and returned
ValidationPassed ==
    /\ pc = "checked"
    /\ success
    /\ last_proc' = NotLaunched
    /\ \E w \in WriteOutcomes :
          IF needs_save(current_schema, schema_content)
          THEN IF set_schema_outcome(w) # "ok" /\ save_failure_propagates
               THEN /\ pc' = "raised"
                    /\ exc' = set_schema_outcome(w)
                    /\ UNCHANGED <<fs, last_set, result>>
               ELSE IF set_schema_outcome(w) # "ok"
               THEN /\ result' = success_result(current_schema, schema_content, attempts)
                    /\ pc' = "returned"
                    /\ UNCHANGED <<fs, last_set, exc>>
               ELSE /\ fs' = set_schema(fs, current_schema)
                    /\ last_set' = [valid |-> TRUE, data |-> current_schema]
                    /\ result' = success_result(current_schema, schema_content, attempts)
                    /\ pc' = "returned"
                    /\ UNCHANGED exc
          ELSE /\ result' = success_result(current_schema, schema_content, attempts)
               /\ pc' = "returned"
               /\ UNCHANGED <<fs, last_set, exc>>
    /\ UNCHANGED <<fence_vars, checked_schema, repair_input, llm_client, prisma_installed, dir_exists, op, schema_content,
                   max_retries, attempts, current_schema, success, error_message,
                   retval, n_validate, n_repair, n_passed, fs_before,
                   in_turn, run_result, repairs_raised, llm_calls>>

\* lines 223-225: the LLM repairs the schema and the loop goes on
Repair ==
    /\ pc = "checked"
    /\ ~success
    /\ can_repair(attempts, max_retries)
    /\ \E llm \in LlmOutcomes :
          LET args == repair_arguments(current_schema, schema_content, error_message)
          IN  /\ current_schema' = fix_schema_with_llm(args.schema, args.message, llm)
              /\ repair_input' = args
              /\ llm_calls' = llm_calls + (IF fix_calls_llm THEN 1 ELSE 0)
              /\ repairs_raised' =
                     repairs_raised + (IF fix_calls_llm /\ llm.raises THEN 1 ELSE 0)
    /\ n_repair' = n_repair + 1
    /\ last_proc' = NotLaunched
    /\ pc' = "loop"
    /\ UNCHANGED <<fence_vars, checked_schema, llm_client, prisma_installed, dir_exists, fs, op, schema_content,
                   max_retries, attempts, success, error_message, result, retval, exc,
                   n_validate, n_passed, fs_before, last_set, in_turn, run_result>>

\* _fix_schema_with_llm(content, message) called on its own, lines 114-176
FixSchemaWithLlm ==
    \E content \in Schemas, llm \in LlmOutcomes :
        /\ Idle
        /\ op' = "_fix_schema_with_llm"
        /\ fs_before' = untouched(fs)
        /\ fs' = untouched(fs)
        /\ n_validate' = 0
        /\ n_repair' = 0
        /\ n_passed' = 0
        /\ llm_calls' = (IF fix_calls_llm THEN 1 ELSE 0)
        /\ repairs_raised' = (IF fix_calls_llm /\ llm.raises THEN 1 ELSE 0)
        /\ schema_content' = content
        /\ current_schema' = <<>>
        /\ max_retries' = 0
        /\ attempts' = 0
        /\ success' = FALSE
        /\ error_message' = Unbound
        /\ retval' = fix_schema_with_llm(content, RunError, llm)
        /\ result' = NoResult
        /\ pc' = "returned"
        /\ exc' = NoExc
        /\ run_result' = NoRunResult
        /\ checked_schema' = <<>>
        /\ repair_input' = [schema |-> content, message |-> RunError]
        /\ UNCHANGED <<fence_vars, llm_client, prisma_installed, dir_exists, last_set,
                       in_turn, last_proc>>

\* UnconfiguredAgent.run -> _process_input, lines 114-146: the LLM generates a
\* schema, the fences are stripped, the manager gets the LLM client and
\* validate_schema(schema_content, 3) starts
TurnStart ==
    \E llm \in LlmOutcomes :
        /\ Idle
        /\ fs_before' = untouched(fs)
        /\ fs' = untouched(fs)
        /\ n_validate' = 0
        /\ n_repair' = 0
        /\ n_passed' = 0
        /\ repairs_raised' = 0
        /\ llm_calls' = 1
        /\ attempts' = 0
        /\ success' = FALSE
        /\ error_message' = Unbound
        /\ retval' = <<>>
        /\ exc' = NoExc
        /\ last_proc' = NotLaunched
        /\ checked_schema' = <<>>
        /\ repair_input' = NoRepairInput
        /\ IF llm.raises
           THEN /\ op' = "run"
                /\ pc' = "returned"
                /\ in_turn' = FALSE
                /\ run_result' = turn_error_result("generation_error", LlmErrorText)
                /\ schema_content' = <<>>
                /\ current_schema' = <<>>
                /\ max_retries' = 0
                /\ result' = NoResult
                /\ UNCHANGED llm_client
           ELSE LET content == generated_schema(llm.text)
                IN  /\ op' = "validate_schema"
                    /\ in_turn' = TRUE
                    /\ run_result' = NoRunResult
                    /\ llm_client' = TRUE
                    /\ schema_content' = content
                    /\ max_retries' = TurnMaxRetries
                    /\ IF is_empty(content)
                       THEN /\ result' = empty_result
                            /\ current_schema' = <<>>
                            /\ pc' = "returned"
                       ELSE /\ result' = NoResult
                            /\ current_schema' = content
                            /\ pc' = "loop"
        /\ UNCHANGED <<fence_vars, prisma_installed, dir_exists, last_set>>

\* lines 148-167 and 227-236: validate_schema is back; on success the front
\* end stores fixed_schema; the message is composed and run returns
TurnFinish ==
    /\ in_turn
    /\ pc \in {"returned", "raised"}
    /\ in_turn' = FALSE
    /\ op' = "run"
    /\ pc' = "returned"
    /\ exc' = NoExc
    /\ \E w \in WriteOutcomes :
          IF pc = "raised"
          THEN /\ run_result' = turn_error_result("validation_error", exc)
               /\ UNCHANGED <<fs, last_set>>
          ELSE IF result.success
          THEN IF ~turn_saves(result, schema_content)
               THEN /\ run_result' = turn_success_result(result)
                    /\ UNCHANGED <<fs, last_set>>
               ELSE IF set_schema_outcome(w) # "ok"
               THEN /\ run_result' = turn_error_result("save_error", set_schema_outcome(w))
                    /\ UNCHANGED <<fs, last_set>>
               ELSE /\ run_result' = turn_success_result(result)
                    /\ fs' = set_schema(fs, result.fixed_schema)
                    /\ last_set' = [valid |-> TRUE, data |-> result.fixed_schema]
          ELSE /\ run_result' = turn_failure_result(result, schema_content)
               /\ UNCHANGED <<fs, last_set>>
    /\ UNCHANGED <<fence_vars, checked_schema, repair_input, llm_client, prisma_installed, dir_exists, schema_content,
                   max_retries, attempts, current_schema, success, error_message,
                   result, retval, n_validate, n_repair, n_passed, fs_before,
                   last_proc, repairs_raised, llm_calls>>

\* lines 226-237: no retry is left or no LLM is there: break, the failure is returned
GiveUp ==
    /\ pc = "checked"
    /\ ~success
    /\ ~can_repair(attempts, max_retries)
    /\ result' = failure_result(error_message, current_schema, attempts)
    /\ pc' = "returned"
    /\ last_proc' = NotLaunched
    /\ UNCHANGED <<fence_vars, checked_schema, repair_input, llm_client, prisma_installed, dir_exists, fs, op, schema_content,
                   max_retries, attempts, current_schema, success, error_message,
                   retval, exc, n_validate, n_repair, n_passed, fs_before, last_set,
                   in_turn, run_result, repairs_raised, llm_calls>>

\* line 202 is false: lines 230-237 run; error_message is unbound when the loop
\* body never ran, and reading it at line 234 raises UnboundLocalError
LoopExhausted ==
    /\ pc = "loop"
    /\ ~loop_condition(attempts, max_retries)
    /\ IF error_message = Unbound
       THEN /\ pc' = "raised"
            /\ exc' = "UnboundLocalError"
            /\ UNCHANGED result
       ELSE /\ result' = failure_result(error_message, current_schema, attempts)
            /\ pc' = "returned"
            /\ UNCHANGED exc
    /\ UNCHANGED <<fence_vars, checked_schema, repair_input, llm_client, prisma_installed, dir_exists, fs, op, schema_content,
                   max_retries, attempts, current_schema, success, error_message,
                   retval, n_validate, n_repair, n_passed, fs_before, last_set,
                   in_turn, run_result, last_proc, repairs_raised, llm_calls>>

(***************************************************************************)
(* The specification.                                                      *)
(***************************************************************************)
Init ==
    /\ llm_client \in BOOLEAN
    /\ prisma_installed \in BOOLEAN
    /\ dir_exists = TRUE
    /\ fs = [p \in Paths |-> Absent]
    /\ pc = "idle"
    /\ op = "__init__"
    /\ schema_content = <<>>
    /\ max_retries = 0
    /\ attempts = 0
    /\ current_schema = <<>>
    /\ success = FALSE
    /\ error_message = Unbound
    /\ result = NoResult
    /\ retval = <<>>
    /\ exc = NoExc
    /\ n_validate = 0
    /\ n_repair = 0
    /\ n_passed = 0
    /\ fs_before = [p \in Paths |-> Absent]
    /\ last_set = [valid |-> FALSE, data |-> <<>>]
    /\ in_turn = FALSE
    /\ run_result = NoRunResult
    /\ last_proc = NotLaunched
    /\ repairs_raised = 0
    /\ llm_calls = 0
    /\ checked_schema = <<>>
    /\ repair_input = NoRepairInput
    /\ llm_reply = <<>>
    /\ stripped = <<>>
    /\ stripper = "none"
    /\ restripped = <<>>

Next ==
    \/ Construct
    \/ RemoveSchemaDir
    \/ GetSchema
    \/ SetSchema
    \/ ValidateSchema
    \/ ValidateSchemaWithoutContent
    \/ FixSchemaWithLlm
    \/ TurnStart
    \/ TurnFinish
    \/ RunPrismaValidate
    \/ ValidationPassed
    \/ Repair
    \/ GiveUp
    \/ LoopExhausted

Spec == Init /\ [][Next]_vars

(***************************************************************************)
(* Calls of validate_schema whose steps are taken: every call of the       *)
(* validator and of the LLM returns or raises, and the interpreter goes on.*)
(***************************************************************************)
RunNext ==
    \/ ValidateSchema
    \/ RunPrismaValidate
    \/ ValidationPassed
    \/ Repair
    \/ GiveUp
    \/ LoopExhausted

LiveSpec ==
    /\ Init
    /\ [][RunNext]_vars
    /\ WF_vars(RunPrismaValidate)
    /\ WF_vars(ValidationPassed)
    /\ WF_vars(Repair)
    /\ WF_vars(GiveUp)
    /\ WF_vars(LoopExhausted)

(***************************************************************************)
(* Front-end turns only: UnconfiguredAgent.run is the only call made.      *)
(***************************************************************************)
TurnNext ==
    \/ TurnStart
    \/ RunPrismaValidate
    \/ ValidationPassed
    \/ Repair
    \/ GiveUp
    \/ TurnFinish

TurnSpec == Init /\ [][TurnNext]_vars

(***************************************************************************)
(* Fence stripping taken on its own: the reply is drawn from the texts of  *)
(* up to MaxLines lines, and one of the two routines strips it.            *)
(***************************************************************************)
MaxLines == 3

\* the lines a reply is made of: text, fences (bare, indented, with a tag,
\* with a carriage return), a fence inside a line, an empty line
LineKinds == { <<"a">>, <<"b">>, <<SP, "a">>, <<>>,
               <<BQ, BQ, BQ>>, <<SP, BQ, BQ, BQ>>, <<BQ, BQ, BQ, "a">>,
               <<BQ, BQ, BQ, CR>>, <<"a", BQ, BQ, BQ>> }

FenceReplies ==
    { join_lines(ls) : ls \in UNION { [1..n -> LineKinds] : n \in 1..MaxLines } }

FenceInit ==
    /\ llm_reply \in FenceReplies
    /\ stripped = <<>>
    /\ stripper = "none"
    /\ restripped = <<>>
    /\ llm_client = TRUE
    /\ prisma_installed = TRUE
    /\ dir_exists = TRUE
    /\ fs = [p \in Paths |-> Absent]
    /\ pc = "idle"
    /\ op = "__init__"
    /\ schema_content = <<>>
    /\ max_retries = 0
    /\ attempts = 0
    /\ current_schema = <<>>
    /\ success = FALSE
    /\ error_message = Unbound
    /\ result = NoResult
    /\ retval = <<>>
    /\ exc = NoExc
    /\ n_validate = 0
    /\ n_repair = 0
    /\ n_passed = 0
    /\ fs_before = [p \in Paths |-> Absent]
    /\ last_set = [valid |-> FALSE, data |-> <<>>]
    /\ in_turn = FALSE
    /\ run_result = NoRunResult
    /\ last_proc = NotLaunched
    /\ repairs_raised = 0
    /\ llm_calls = 0
    /\ checked_schema = <<>>
    /\ repair_input = NoRepairInput

program_vars ==
    <<llm_client, prisma_installed, dir_exists, fs, pc, op,
      schema_content, max_retries, attempts, current_schema, success,
      error_message, result, retval, exc, n_validate, n_repair, n_passed,
      fs_before, last_set, in_turn, run_result, last_proc, repairs_raised,
      llm_calls, checked_schema, repair_input>>

\* _fix_schema_with_llm, lines 156-172, applied to the reply
StripRepairReply ==
    /\ stripper = "none"
    /\ stripped' = extract_schema(llm_reply)
    /\ stripper' = "repair"
    /\ UNCHANGED <<llm_reply, restripped, program_vars>>

\* _process_input, lines 120-135, applied to the reply
StripGeneratedReply ==
    /\ stripper = "none"
    /\ stripped' = generated_schema(llm_reply)
    /\ stripper' = "generation"
    /\ UNCHANGED <<llm_reply, restripped, program_vars>>

\* _fix_schema_with_llm, lines 156-172, applied to the text it extracted
RestripRepairReply ==
    /\ stripper = "repair"
    /\ restripped' = extract_schema(stripped)
    /\ stripper' = "repair twice"
    /\ UNCHANGED <<llm_reply, stripped, program_vars>>

\* _process_input, lines 120-135, applied to the text it extracted
RestripGeneratedReply ==
    /\ stripper = "generation"
    /\ restripped' = generated_schema(stripped)
    /\ stripper' = "generation twice"
    /\ UNCHANGED <<llm_reply, stripped, program_vars>>

FenceNext ==
    \/ StripRepairReply
    \/ StripGeneratedReply
    \/ RestripRepairReply
    \/ RestripGeneratedReply

FenceSpec == FenceInit /\ [][FenceNext]_vars

(***************************************************************************)
(* Properties.                                                             *)
(***************************************************************************)
\* a validate_schema call has returned its dictionary
Returned == op = "validate_schema" /\ pc = "returned"
\* a validate_schema call on a non-empty schema with max_retries >= 1
ProperRun == op = "validate_schema" /\ ~is_empty(schema_content) /\ max_retries >= 1

\* C1: a run on a non-empty schema with max_retries >= 1 never makes more than
\* max_retries validator calls, and the attempts it returns is the number of
\* validator calls it made.
OrchestratorBoundsValidatorCalls ==
    ProperRun =>
        /\ n_validate <= max_retries
        /\ (pc = "returned" => result.attempts = n_validate)
OrchestratorUsesAllAttempts ==
    /\ Returned
    /\ max_retries = MaxAttempts
    /\ n_validate = MaxAttempts
    /\ result.attempts = MaxAttempts

\* C2: an empty schema is rejected at once, whatever max_retries is: success is
\* false, the error is "Schema content is empty", attempts is 0, the final
\* content is empty, and no validator call, no repair call and no write to the
\* artifact or to the temporary file has happened.
EmptySchemaRejected ==
    (op = "validate_schema" /\ Len(schema_content) = 0) =>
        /\ pc = "returned"
        /\ result.success = FALSE
        /\ result.error = "Schema content is empty"
        /\ result.attempts = 0
        /\ result.fixed_schema = <<>>
        /\ n_validate = 0
        /\ n_repair = 0
        /\ \A p \in Paths : ~fs[p].touched /\ fs[p] = fs_before[p]
EmptySchemaRejectedWithArtifact ==
    /\ Returned
    /\ Len(schema_content) = 0
    /\ max_retries = MaxAttempts
    /\ fs[schema_path].exists
    /\ llm_client

\* C3: with an LLM configured and a validator that fails every time, a run with
\* max_retries >= 1 calls the repair requester max_retries - 1 times and the
\* validator max_retries times, and returns success false with attempts =
\* max_retries (so none at all with max_retries = 1).
AlwaysFailingRepairsAllButLast ==
    (Returned /\ ProperRun /\ llm_client /\ n_passed = 0) =>
        /\ n_repair = max_retries - 1
        /\ n_validate = max_retries
        /\ result.success = FALSE
        /\ result.attempts = max_retries
AlwaysFailingWithLlm ==
    /\ Returned
    /\ ProperRun
    /\ llm_client
    /\ n_passed = 0
    /\ max_retries = MaxAttempts
    /\ n_repair = MaxAttempts - 1

\* C4: without an LLM, a run with max_retries >= 1 whose first check fails makes
\* that one validator call and no repair call, and returns success false,
\* attempts 1 and the initial schema as final content.
NoLlmStopsAfterOneAttempt ==
    (ProperRun /\ ~llm_client /\ n_passed = 0) =>
        /\ n_validate <= 1
        /\ n_repair = 0
        /\ (pc = "checked" => current_schema = schema_content)
        /\ (pc = "returned" =>
               /\ result.success = FALSE
               /\ result.attempts = 1
               /\ n_validate = 1
               /\ result.fixed_schema = schema_content)
NoLlmFailedOnce ==
    /\ Returned
    /\ ProperRun
    /\ ~llm_client
    /\ n_passed = 0
    /\ max_retries = MaxAttempts
    /\ result.attempts = 1

\* C5: when the first validator check passes, the run returns success true with
\* attempts 1 and the initial schema as final content, and the repair requester
\* is not called.
FirstAttemptPass ==
    (op = "validate_schema" /\ n_validate = 1 /\ n_passed = 1) =>
        /\ n_repair = 0
        /\ pc \in {"checked", "returned"}
        /\ (pc = "returned" =>
               /\ result.success = TRUE
               /\ result.attempts = 1
               /\ result.fixed_schema = schema_content)
FirstAttemptPassed ==
    /\ Returned
    /\ n_validate = 1
    /\ n_passed = 1
    /\ llm_client
    /\ max_retries = MaxAttempts

\* C6: the temporary file does not exist once _run_prisma_validate has
\* returned, on every exit path, so no run leaves one behind.
TempFileRemovedOnEveryPath ==
    (op = "validate_schema" /\ pc \in {"checked", "returned"}) =>
        ~fs[temp_schema_path].exists

\* C7: a returned result with success true has an empty error and attempts
\* >= 1; a result that fails because the schema was empty has attempts 0;
\* attempts is never negative.
ValidationResultInvariant ==
    Returned =>
        /\ (result.success => result.error = "" /\ result.attempts >= 1)
        /\ (~result.success /\ Len(schema_content) = 0 => result.attempts = 0)
        /\ result.attempts \in Nat
SucceededAfterRepairs ==
    /\ Returned
    /\ result.success
    /\ result.attempts = MaxAttempts

\* C8: when a repaired schema passes, the run returns success true, attempts =
\* the number of the passing check and the repaired schema as final content,
\* and get_schema() then returns exactly that final content.
RepairedSchemaIsStored ==
    (Returned /\ result.success /\ result.fixed_schema # schema_content) =>
        /\ result.attempts = n_validate
        /\ result.fixed_schema = current_schema
        /\ get_schema(fs) = result.fixed_schema

ArtifactRoundTrip ==
    (op = "get_schema" /\ pc = "returned" /\ last_set.valid) =>
        retval = last_set.data

ToolMissingEveryAttempt ==
    (ProperRun /\ ~prisma_installed) =>
        /\ pc # "raised"
        /\ exc = NoExc
        /\ n_passed = 0
        /\ (pc = "checked" =>
               ~success /\ error_message = "Prisma CLI not found. Please install Prisma")
        /\ (pc = "returned" =>
               /\ result.success = FALSE
               /\ result.error = "Prisma CLI not found. Please install Prisma"
               /\ result.attempts = n_validate
               /\ n_validate = (IF llm_client THEN max_retries ELSE 1))
ToolMissingAfterAllAttempts ==
    /\ Returned
    /\ ProperRun
    /\ ~prisma_installed
    /\ dir_exists
    /\ llm_client
    /\ n_validate = MaxAttempts

\* C14 as claimed: validate_schema called with the content omitted or None
\* does not raise and does not reject the input as empty; with a non-empty
\* schema stored it runs the validator on the stored schema at least once.
StoredSchemaValidatedWhenNoContent ==
    (/\ op \in {OmittedContent, NoneContent}
     /\ max_retries >= 1
     /\ fs_before[schema_path].exists
     /\ get_schema(fs_before) # <<>>) =>
        /\ pc # "raised"
        /\ (pc = "returned" =>
               /\ result.error # EmptyError
               /\ result.attempts >= 1
               /\ n_validate >= 1)

\* C15: when the external process completes, the check passes exactly when
\* its return code is zero and the diagnostic is empty exactly then; for a
\* non-zero return code the diagnostic is stderr if non-empty, else stdout if
\* non-empty, else "Unknown validation error"; a failed check never has an
\* empty diagnostic.
ValidatorAdapterContract ==
    /\ (pc = "checked" /\ last_proc.kind = "completed") =>
           /\ (success <=> last_proc.returncode = 0)
           /\ (error_message = "" <=> last_proc.returncode = 0)
           /\ (last_proc.returncode # 0 /\ last_proc.stderr # "" =>
                  error_message = last_proc.stderr)
           /\ (last_proc.returncode # 0 /\ last_proc.stderr = ""
                  /\ last_proc.stdout # "" => error_message = last_proc.stdout)
           /\ (last_proc.returncode # 0 /\ last_proc.stderr = ""
                  /\ last_proc.stdout = "" =>
                  error_message = "Unknown validation error")
    /\ (pc = "checked" /\ ~success => error_message # "")
ProcessFailedWithBothStreams ==
    /\ pc = "checked"
    /\ last_proc.kind = "completed"
    /\ last_proc.returncode # 0
    /\ last_proc.stderr # ""
    /\ last_proc.stdout # ""

\* a check of a validate_schema run that ended in an exception of the
\* temporary file or of the external process
InvocationFailed ==
    op = "validate_schema" /\ pc = "checked" /\ last_proc.kind # "completed"

\* C16: no exception of the temporary file or of the external process leaves
\* a run; such a check is a failed check with a non-empty diagnostic, it is
\* counted as an attempt, and while attempts remain and an LLM is configured
\* the next step is a repair that keeps that diagnostic.
InvocationErrorsAreFailedChecks ==
    /\ [](ProperRun /\ n_passed = 0 => pc # "raised" /\ exc = NoExc)
    /\ [](InvocationFailed =>
             /\ ~success
             /\ error_message # ""
             /\ error_message # Unbound
             /\ attempts = n_validate
             /\ n_validate >= 1)
    /\ [][(InvocationFailed /\ attempts < max_retries /\ llm_client) =>
             /\ pc' = "loop"
             /\ n_repair' = n_repair + 1
             /\ error_message' = error_message]_vars
ProcessCrashThenRepair ==
    /\ op = "validate_schema"
    /\ pc = "loop"
    /\ n_repair >= 1
    /\ prisma_installed
    /\ error_message = RunError

\* C17: _fix_schema_with_llm never raises; without an LLM it returns the
\* candidate unchanged and makes no LLM call; when the LLM call raises it
\* returns the candidate unchanged; a run whose repairs all raised checks the
\* initial content every time, and when every check failed it makes
\* max_retries validator calls and returns the initial content.
RepairDegradesToIdentity ==
    /\ (op = "_fix_schema_with_llm" =>
           /\ pc = "returned"
           /\ exc = NoExc
           /\ (~llm_client => retval = schema_content /\ llm_calls = 0)
           /\ (repairs_raised = 1 => retval = schema_content))
    /\ (ProperRun /\ n_repair = repairs_raised) =>
           /\ pc # "raised"
           /\ current_schema = schema_content
    /\ (ProperRun /\ Returned /\ llm_client /\ n_passed = 0
           /\ n_repair = repairs_raised) =>
           /\ n_validate = max_retries
           /\ result.success = FALSE
           /\ result.fixed_schema = schema_content
AllRepairsRaised ==
    /\ Returned
    /\ ProperRun
    /\ llm_client
    /\ repairs_raised = MaxAttempts - 1
    /\ n_repair = repairs_raised
    /\ n_validate = MaxAttempts

\* a front-end turn has ended: run has returned
TurnDone == op = "run" /\ pc = "returned"

\* C18 as claimed: the message of a failed turn carries the attempt count, the
\* final diagnostic and the candidate the orchestrator checked last and
\* returned as fixed_schema.
FailureMessageShowsLastCandidate ==
    (TurnDone /\ run_result.kind = "failure") =>
        /\ run_result.attempts = result.attempts
        /\ run_result.diagnostic = result.error
        /\ run_result.schema = result.fixed_schema

\* C19 as claimed: a turn whose generated candidate passes unchanged on the
\* first attempt does not write the artifact file.
UnchangedPassWritesNothing ==
    (/\ TurnDone
     /\ run_result.kind = "success"
     /\ n_validate = 1
     /\ result.fixed_schema = schema_content) =>
        ~fs[schema_path].touched

\* C19 as amended: a turn writes the artifact file exactly when its validation
\* succeeds: the front end stores fixed_schema after every success, also
\* when the candidate passed unchanged; a turn whose validation does not
\* succeed leaves the artifact file as it was, and a turn whose own write is
\* refused leaves at most the write of validate_schema behind.
TurnWritesArtifactOnSuccess ==
    TurnDone =>
        /\ (run_result.kind = "success" =>
               /\ result.success
               /\ fs[schema_path].touched
               /\ fs[schema_path].exists
               /\ fs[schema_path].data = write_text(result.fixed_schema)
               /\ last_set = [valid |-> TRUE, data |-> result.fixed_schema])
        /\ (run_result.kind \notin {"success", "save_error"} =>
               fs[schema_path] = fs_before[schema_path])
        /\ (run_result.kind = "save_error" =>
               /\ result.success
               /\ \/ fs[schema_path] = fs_before[schema_path]
                  \/ /\ result.fixed_schema # schema_content
                     /\ fs[schema_path].data = write_text(result.fixed_schema))
UnchangedPassWroteArtifact ==
    /\ TurnDone
    /\ run_result.kind = "success"
    /\ n_validate = 1
    /\ n_repair = 0
    /\ result.fixed_schema = schema_content
    /\ fs[schema_path].touched

StorageFailurePropagates ==
    /\ (ProperRun /\ pc = "returned" /\ result.success
           /\ result.fixed_schema # schema_content) =>
           /\ fs[schema_path].exists
           /\ fs[schema_path].touched
           /\ fs[schema_path].data = write_text(result.fixed_schema)
    /\ (ProperRun /\ pc = "raised" /\ n_passed >= 1) =>
           /\ exc = "PermissionError"
           /\ current_schema # schema_content
           /\ result = NoResult
           /\ fs[schema_path] = fs_before[schema_path]
    /\ (TurnDone /\ run_result.kind = "validation_error") =>
           /\ n_passed >= 1
           /\ run_result.error = "PermissionError"
           /\ run_result.response # SuccessText
           /\ fs[schema_path] = fs_before[schema_path]
    /\ (TurnDone /\ run_result.kind = "save_error") =>
           /\ result.success
           /\ run_result.error = "PermissionError"
           /\ run_result.response # SuccessText
    /\ (TurnDone /\ run_result.kind = "success") =>
           fs[schema_path].data = write_text(result.fixed_schema)
RepairedCandidateNotStored ==
    /\ op = "validate_schema"
    /\ ~in_turn
    /\ pc = "raised"
    /\ exc = "PermissionError"
    /\ n_repair >= 1
    /\ n_passed >= 1

\* a line starts with the delimiter / does so once it is trimmed
StartsWithFence(line) == startswith_fence(line)
TrimmedStartsWithFence(line) == startswith_fence(strip(line))

\* What the claim describes: the reply trimmed when it holds no delimiter;
\* otherwise the trimmed join of the lines that are no delimiter lines and
\* have an odd number of delimiter lines before them.
ExpectedStrip(r, Fence(_)) ==
    IF ~contains_fence(r) THEN strip(r)
    ELSE LET lines == split_lines(r)
             idx == { i \in 1..Len(lines) :
                        /\ ~Fence(lines[i])
                        /\ Cardinality({ j \in 1..(i - 1) : Fence(lines[j]) }) % 2 = 1 }
             kept == [k \in 1..Cardinality(idx) |->
                        lines[CHOOSE i \in idx :
                                  Cardinality({ j \in idx : j <= i }) = k]]
         IN  strip(join_lines(kept))

\* C22 as claimed: both routines return the trimmed reply when it holds no
\* delimiter, and otherwise the trimmed join of the lines inside fenced
\* blocks, where the lines that start with the delimiter toggle and are dropped.
FenceStrippingByLineStart ==
    stripper # "none" => stripped = ExpectedStrip(llm_reply, StartsWithFence)

\* C22 as amended: the same, where the lines that toggle and are dropped are
\* those that start with the delimiter once leading and trailing whitespace
\* is trimmed from them.
FenceStrippingByTrimmedLineStart ==
    stripper # "none" => stripped = ExpectedStrip(llm_reply, TrimmedStartsWithFence)
IndentedFenceClosedBlock ==
    /\ stripper = "repair"
    /\ llm_reply = <<BQ, BQ, BQ, LF, "a", LF, SP, BQ, BQ, BQ>>
    /\ stripped = <<"a">>
\* C23: within a run, a repair call is made only right after a failed check
\* that was not the last attempt, with the candidate that check examined and
\* the diagnostic it returned; every check after the first follows a repair
\* and examines what the repair returned; once the run has returned no check
\* and no repair of that run follows.
ValidateAndRepairAlternate ==
    /\ [][n_repair' = n_repair + 1 =>
             /\ pc = "checked"
             /\ ~success
             /\ attempts < max_retries
             /\ repair_input' = [schema |-> checked_schema, message |-> error_message]
             /\ pc' = "loop"]_vars
    /\ [][n_validate' = n_validate + 1 =>
             /\ pc = "loop"
             /\ n_repair = n_validate
             /\ checked_schema' = current_schema
             /\ pc' \in {"checked", "raised"}]_vars
    /\ [](pc = "checked" => n_repair = n_validate - 1)
    /\ [][(pc = "returned" \/ pc = "raised") =>
             /\ pc' # "checked"
             /\ (n_validate' = 0 \/ n_validate' = n_validate)
             /\ (n_repair' = 0 \/ n_repair' = n_repair)]_vars
SecondRepairAfterSecondCheck ==
    /\ op = "validate_schema"
    /\ pc = "loop"
    /\ n_repair = 2
    /\ repair_input.schema = checked_schema
    /\ repair_input.schema # schema_content
    /\ current_schema # checked_schema

\* C24: a run that fails after at least one check returns the diagnostic of
\* its last check, the candidate that check examined (no repair was made
\* after it) and the number of checks made.
TerminalFailureReportsLastCheck ==
    (Returned /\ ProperRun /\ ~result.success) =>
        /\ n_validate >= 1
        /\ result.error = error_message
        /\ result.error # ""
        /\ result.error # Unbound
        /\ result.fixed_schema = checked_schema
        /\ result.fixed_schema = current_schema
        /\ repair_input = NoRepairInput
        /\ result.attempts = n_validate
FailedOnRepairedCandidate ==
    /\ Returned
    /\ ProperRun
    /\ ~result.success
    /\ n_repair >= 1
    /\ result.fixed_schema # schema_content
    /\ result.error = "stderr text"

\* C25: a run that succeeds with a candidate equal to the initial one leaves
\* the artifact file as it was: same existence, same content, not written.
EqualCandidateIsNotSaved ==
    (Returned /\ ProperRun /\ result.success
        /\ result.fixed_schema = schema_content) =>
        fs[schema_path] = fs_before[schema_path]
RepairedBackToInitialPassed ==
    /\ Returned
    /\ ProperRun
    /\ result.success
    /\ n_repair >= 1
    /\ result.fixed_schema = schema_content
    /\ fs_before[schema_path].exists
    /\ fs_before[schema_path].data # write_text(schema_content)

\* a validate_schema run is under way / has ended
Running == op = "validate_schema" /\ pc \in {"loop", "checked"}
Ended == pc \in {"returned", "raised"}

\* C26: a run with max_retries >= 1 makes at most max_retries checks and
\* fewer repairs, and it ends: it returns a result (or raises).
RunTerminates ==
    /\ [](ProperRun => n_validate <= max_retries /\ n_repair < max_retries
                         /\ llm_calls <= n_repair + (IF in_turn THEN 1 ELSE 0))
    /\ ((Running /\ ProperRun) ~> Ended)
NeverPassingRunEnded ==
    /\ Returned
    /\ ProperRun
    /\ ~in_turn
    /\ n_passed = 0
    /\ n_validate = MaxAttempts
    /\ llm_calls = MaxAttempts - 1

\* the artifact file is written or removed by this step
ArtifactChanges ==
    \/ fs'[schema_path].exists # fs[schema_path].exists
    \/ fs'[schema_path].data # fs[schema_path].data
    \/ fs'[schema_path].touched /\ ~fs[schema_path].touched

\* C27: when only front-end turns are made, every step that changes the
\* artifact file writes the candidate the validator has just passed, so the
\* file is absent or holds a passed candidate; a turn that ends in a failed
\* validation, an empty candidate or a generation error leaves the file as
\* the turn found it.
ArtifactHoldsPassedCandidate ==
    /\ [][ArtifactChanges =>
             /\ success
             /\ n_passed >= 1
             /\ fs'[schema_path].exists
             /\ fs'[schema_path].data = write_text(checked_schema)]_vars
    /\ [](TurnDone /\ run_result.kind \in {"failure", "generation_error",
                                             "validation_error"} =>
             fs[schema_path] = fs_before[schema_path])
FailedTurnKeptEarlierArtifact ==
    /\ TurnDone
    /\ run_result.kind = "failure"
    /\ n_validate = TurnMaxRetries
    /\ fs[schema_path].exists

\* C28 as claimed: after a turn that reports success, get_schema() returns
\* the schema text of the success message.
SuccessfulTurnStoresShownSchema ==
    (TurnDone /\ run_result.kind = "success") =>
        get_schema(fs) = run_result.schema

\* C29 as claimed: no check of a run examines the empty candidate, and no
\* run returns success with an empty final content.
ValidatorNeverGetsEmptyCandidate ==
    /\ (op = "validate_schema" /\ pc = "checked") => checked_schema # <<>>
    /\ (Returned /\ result.success) => result.fixed_schema # <<>>

\* C30 as claimed: a check has the "Prisma CLI not found" diagnostic exactly
\* when the executable could not be launched because it was not found.
ToolMissingOnlyWhenNotFound ==
    pc = "checked" =>
        (error_message = ToolMissing <=> last_proc.kind = "FileNotFoundError")

\* C31 as claimed: stripping the text a routine has extracted from a reply
\* gives that text again.
FenceStrippingIdempotent ==
    stripper \in {"repair twice", "generation twice"} => restripped = stripped

\* C32 as claimed: a validate_schema call on a non-empty schema never raises
\* because of its own control flow, and with max_retries <= 0 it returns a
\* failure with attempts 0 and a defined error after no validator call.
NonPositiveRetriesReturnFailure ==
    /\ op = "validate_schema" => exc # "UnboundLocalError"
    /\ (op = "validate_schema" /\ ~is_empty(schema_content) /\ max_retries <= 0
           /\ pc # "loop") =>
           /\ pc = "returned"
           /\ ~result.success
           /\ result.attempts = 0
           /\ result.error # Unbound
           /\ n_validate = 0

====
